---- MODULE Spec2Model ----
(***************************************************************************)
(* Model of the Piper OpenAI-compatible TTS server (server.py): the        *)
(* POST /v1/audio/speech handler generate_speech, the voice download, the  *)
(* format conversion and the streaming generator with its cleanup.         *)
(*                                                                         *)
(* Text values (voice names, formats, paths, input text) are sequences of  *)
(* one-character strings, so that the string operations of the code        *)
(* (lower, split, join, replace, path joining) are computed, not assumed.  *)
(***************************************************************************)
EXTENDS Naturals, Sequences, FiniteSets, TLC

VARIABLES
    pc,            \* position of each request in generate_speech / the generator
    request,       \* the parsed OpenAISpeechRequest of each request
    loc,           \* locals of generate_speech for each request
    gen,           \* locals of stream_audio_generator for each request
    resp,          \* what the caller has been sent for each request
    disconnected,  \* whether the caller of each request has gone away
    log,           \* per request, the externally visible steps taken, in order
    fs             \* the filesystem: existing path -> "partial" | "complete"

vars == <<pc, request, loc, gen, resp, disconnected, log, fs>>

(***************************** bounds ***************************************)
\* number of request slots of the model
MaxReqs == 2
\* largest number of 8192-byte chunks an audio file is read in
MaxChunks == 2

Reqs == 1..MaxReqs

(***************************** text helpers *********************************)
\* Python's None, as a value comparable with texts
None == <<"None">>

UpperAlpha == <<"A","B","C","D","E","F","G","H","I","J","K","L","M",
                "N","O","P","Q","R","S","T","U","V","W","X","Y","Z">>
LowerAlpha == <<"a","b","c","d","e","f","g","h","i","j","k","l","m",
                "n","o","p","q","r","s","t","u","v","w","x","y","z">>

\* str.lower() on one character
LowerChar(c) ==
    IF \E i \in DOMAIN UpperAlpha : UpperAlpha[i] = c
    THEN LowerAlpha[CHOOSE i \in DOMAIN UpperAlpha : UpperAlpha[i] = c]
    ELSE c

\* str.lower()
Lower(s) == [i \in DOMAIN s |-> LowerChar(s[i])]

\* `c in s` for a one-character c
Contains(s, c) == \E i \in DOMAIN s : s[i] = c

\* s.startswith(c) for a one-character c
StartsWith(s, c) == Len(s) > 0 /\ s[1] = c

\* s.startswith(p) for a text p
HasPrefix(s, p) == Len(s) >= Len(p) /\ SubSeq(s, 1, Len(p)) = p

\* s.split(sep) for a one-character sep: the list of the parts
RECURSIVE Split(_, _)
Split(s, sep) ==
    IF ~Contains(s, sep) THEN <<s>>
    ELSE LET i == CHOOSE k \in DOMAIN s :
                     s[k] = sep /\ \A j \in 1..(k - 1) : s[j] # sep
         IN  <<SubSeq(s, 1, i - 1)>> \o Split(SubSeq(s, i + 1, Len(s)), sep)

\* sep.join(parts)
RECURSIVE Join(_, _)
Join(parts, sep) ==
    IF Len(parts) = 0 THEN <<>>
    ELSE IF Len(parts) = 1 THEN parts[1]
    ELSE parts[1] \o sep \o Join(Tail(parts), sep)

\* s.replace(old, new): every occurrence, left to right
RECURSIVE Replace(_, _, _)
Replace(s, old, new) ==
    IF Len(s) = 0 THEN <<>>
    ELSE IF HasPrefix(s, old)
         THEN new \o Replace(SubSeq(s, Len(old) + 1, Len(s)), old, new)
         ELSE <<s[1]>> \o Replace(Tail(s), old, new)

\* Python truthiness of an Optional[str]
Truthy(x) == x # None /\ x # <<>>

\* Python's `a or b`
PyOr(a, b) == IF Truthy(a) THEN a ELSE b

(***************************** numbers **************************************)
\* a float is held as the exact ratio n/d; d = 0 stands for None
Rat(n, d) == [ n |-> n, d |-> d ]
NoFloat == Rat(0, 0)
One == Rat(1, 1)
RatLess(a, b) == a.n * b.d < b.n * a.d
RatEq(a, b) == a.n * b.d = b.n * a.d

\* Python's max(a, b), a / b and `a or b` on floats (0.0 is falsy)
RatMax(a, b) == IF RatLess(a, b) THEN b ELSE a
RatDiv(a, b) == Rat(a.n * b.d, a.d * b.n)
FloatOr(a, b) == IF a # NoFloat /\ a.n # 0 THEN a ELSE b

RECURSIVE GCD(_, _)
GCD(a, b) == IF b = 0 THEN a ELSE GCD(b, a % b)

\* str(x) of a number: one text per value, whatever ratio holds the value
Str(x) == [ repr |-> Rat(x.n \div GCD(x.n, x.d), x.d \div GCD(x.n, x.d)) ]

(***************************** configuration ********************************)
\* DATA_DIR = Path("/data")
DATA_DIR == <<"/","d","a","t","a">>

\* HF_URL_BASE
HF_URL_BASE ==
    << "h","t","t","p","s",":","/","/","h","u","g","g","i","n",
       "g","f","a","c","e",".","c","o","/","r","h","a","s","s",
       "p","y","/","p","i","p","e","r","-","v","o","i","c","e",
       "s","/","r","e","s","o","l","v","e","/","v","1",".","0",
       ".","0" >>

DotOnnx == <<".","o","n","n","x">>
DotOnnxJson == <<".","o","n","n","x",".","j","s","o","n">>
DotWav == <<".","w","a","v">>
DotMp3 == <<".","m","p","3">>
FmtWav == <<"w","a","v">>
FmtMp3 == <<"m","p","3">>

\* argv words of the piper command line
PIPER == <<"p","i","p","e","r">>
OPT_MODEL == <<"-","-","m","o","d","e","l">>
OPT_OUTPUT == <<"-","-","o","u","t","p","u","t","_","f","i","l","e">>
OPT_LENGTH == <<"-","-","l","e","n","g","t","h","-","s","c","a","l","e">>
OPT_NOISE == <<"-","-","n","o","i","s","e","-","s","c","a","l","e">>
OPT_NOISE_W == <<"-","-","n","o","i","s","e","-","w">>
OPT_SPEAKER == <<"-","-","s","p","e","a","k","e","r">>

\* pathlib's DATA_DIR / name: an absolute name replaces the directory
PathJoin(dir, name) ==
    IF StartsWith(name, "/") THEN name ELSE dir \o <<"/">> \o name

(***************************** request inputs *******************************)
VGood    == <<"e","n","_","U","S","-","t","-","l">>   \* en_US-t-l
VBad     == <<"b","a","d">>                           \* bad
VTrav    == <<".",".","/","a","-","b","-","c">>       \* ../a-b-c
VBack    == <<".",".","\\","w">>                      \* ..\w
VHidden  == <<".","a","-","b","-","c">>               \* .a-b-c

VoiceChoices == {None, <<>>, VGood}
ModelChoices == {<<>>, VGood, VBad, VTrav, VBack, VHidden}

TxtHi    == <<"H","i">>
TxtHello == <<"H","e","l","l","o">>
TxtFrom  == <<"f","r","o","m">>

InputChoices ==
    { [kind |-> "str",  val |-> <<>>],
      [kind |-> "str",  val |-> TxtHi],
      [kind |-> "list", val |-> <<>>],
      [kind |-> "list", val |-> <<TxtHello, TxtFrom>>] }

FormatChoices == {None, <<>>, FmtWav, FmtMp3, <<"M","P","3">>, <<"f","l","a","c">>}
ResponseFormatChoices == {None, FmtMp3}

\* the defaults of the numeric fields
DefaultSpeed == Rat(1, 1)
DefaultNoiseScale == Rat(667, 1000)
DefaultNoiseScaleW == Rat(8, 10)

\* the parsed request bodies the model is run on (class OpenAISpeechRequest)
OpenAISpeechRequest ==
    [ model : ModelChoices, voice : VoiceChoices, input : InputChoices,
      format : FormatChoices, response_format : ResponseFormatChoices,
      speed : {DefaultSpeed}, noise_scale : {DefaultNoiseScale},
      noise_scale_w : {DefaultNoiseScaleW}, length_scale : {NoFloat},
      speaker : {NoFloat} ]

\* the bodies that vary the numeric fields: speed within its ge/le limits or
\* null, length_scale unconstrained, speaker an integer or null
SpeedChoices == {NoFloat, Rat(1, 4), Rat(1, 2), Rat(1, 1), Rat(3, 2), Rat(2, 1), Rat(4, 1)}
LengthScaleChoices == {NoFloat, Rat(0, 1), Rat(3, 4), Rat(5, 1)}
SpeakerChoices == {NoFloat, Rat(0, 1)}

NumericSpeechRequest ==
    [ model : {VGood}, voice : {None}, input : {[kind |-> "str", val |-> TxtHi]},
      format : {None, FmtMp3}, response_format : {None},
      speed : SpeedChoices, noise_scale : {DefaultNoiseScale},
      noise_scale_w : {DefaultNoiseScaleW}, length_scale : LengthScaleChoices,
      speaker : SpeakerChoices ]

\* the bodies sent by callers that overlap in time
ConcurrentSpeechRequest ==
    [ model : {VGood}, voice : {None}, input : {[kind |-> "str", val |-> TxtHi]},
      format : {None, FmtMp3}, response_format : {None},
      speed : {DefaultSpeed}, noise_scale : {DefaultNoiseScale},
      noise_scale_w : {DefaultNoiseScaleW}, length_scale : {NoFloat},
      speaker : {NoFloat} ]

NoRequest == [ model |-> None, voice |-> None,
               input |-> [kind |-> "str", val |-> <<>>],
               format |-> None, response_format |-> None,
               speed |-> NoFloat, noise_scale |-> NoFloat,
               noise_scale_w |-> NoFloat, length_scale |-> NoFloat,
               speaker |-> NoFloat ]

\* exit codes an external process can end with
ExitCodes == {0, 1, 2}

\* the os.urandom(4).hex() part of a temporary file name
RandHex == { <<"a","0">>, <<"b","1">> }
\* the os.getpid() part of a temporary file name
Pid == <<"7">>

(***************************** pure functions *******************************)
\* get_voice_paths: the .onnx and .onnx.json paths of a voice
get_voice_paths(voice_name) ==
    << PathJoin(DATA_DIR, voice_name \o DotOnnx),
       PathJoin(DATA_DIR, voice_name \o DotOnnxJson) >>

\* a handler that lets model take precedence over voice
EffectiveVoiceModelFirst(rq) == PyOr(rq.model, rq.voice)

\* generate_speech: voice_name = request.voice or request.model
EffectiveVoice(rq) == PyOr(rq.voice, rq.model)

\* a handler that lets response_format take precedence over format
EffectiveFormatAliasFirst(rq) == PyOr(PyOr(rq.response_format, rq.format), FmtWav)

\* generate_speech: requested_format = format or response_format or "wav"
EffectiveFormat(rq) == PyOr(PyOr(rq.format, rq.response_format), FmtWav)

\* a handler that ends every segment of a list input with a newline
JoinedInputTerminated(rq) ==
    IF rq.input.kind = "list" THEN Join(rq.input.val, <<"\n">>) \o <<"\n">>
    ELSE rq.input.val

\* generate_speech: a list input is joined with newlines
JoinedInput(rq) ==
    IF rq.input.kind = "list" THEN Join(rq.input.val, <<"\n">>) ELSE rq.input.val

\* convert_audio_if_needed: target_format = (target_format or "wav").lower()
NormalFormat(target_format) == Lower(PyOr(target_format, FmtWav))

\* generate_speech: wav_path = f"/tmp/piper_{pid}_{hex}.wav"
WavPath(pid, hex) ==
    <<"/","t","m","p","/","p","i","p","e","r","_">> \o pid \o <<"_">> \o hex \o DotWav

\* convert_audio_if_needed: mp3_path = wav_path.replace(".wav", ".mp3")
Mp3Path(wav_path) == Replace(wav_path, DotWav, DotMp3)

(***************************** filesystem ***********************************)
Exists(files, p) == p \in DOMAIN files

\* open(p, "wb") / a process writing p: p exists with the given state
WriteFile(files, p, st) ==
    [q \in DOMAIN files \cup {p} |-> IF q = p THEN st ELSE files[q]]

\* unlink / os.remove of every path of ps that exists
RemoveFiles(files, ps) == [q \in DOMAIN files \ ps |-> files[q]]

Range(s) == { s[i] : i \in DOMAIN s }

(***************************** state ****************************************)
NoLoc == [ voice_name |-> None, requested_format |-> None, input_text |-> <<>>,
           ext |-> 0, wav_path |-> None, piper_cmd |-> <<>>,
           final_path |-> None, media_type |-> "", extra_cleanup |-> <<>> ]

NoGen == [ cleanup_files |-> <<>>, remaining |-> 0, returncode |-> 0 ]

\* the detail of an HTTPException: its text, with the voice name or the exit
\* code that the f-string puts into it (the texts are the source's, without
\* the backquotes around field names)
Detail(text, voice, code) == [ text |-> text, voice |-> voice, code |-> code ]
NoDetail == Detail("", <<>>, 0)

DetailVoiceRequired ==
    Detail("voice (or model as fallback) must be provided as Piper voice name.", <<>>, 0)
DetailEmptyInput == Detail("input text must not be empty.", <<>>, 0)
DetailVoiceNotFound(voice_name) == Detail("Voice '{voice_name}' not found.", voice_name, 0)
DetailUnsupported ==
    Detail("Unsupported audio format. Only 'wav' and 'mp3' are supported.", <<>>, 0)
DetailFfmpeg ==
    Detail("Failed to convert audio to mp3. Is ffmpeg installed in the container?", <<>>, 0)
DetailPiper(returncode) == Detail("Piper failed with exit code {returncode}", <<>>, returncode)

\* status: the status line the caller has received, 0 while none was sent;
\* raised: the HTTPException raised for the request, if any
NoResp == [ status |-> 0, detail |-> NoDetail, media_type |-> "",
            delivered |-> 0, finished |-> FALSE, aborted |-> FALSE,
            raised |-> 0, raised_detail |-> NoDetail ]

\* the asset files a run may find already in the store
InitialStores ==
    { [p \in {} |-> "complete"],
      [p \in {get_voice_paths(VGood)[1]} |-> "complete"],
      [p \in {get_voice_paths(VGood)[2]} |-> "complete"],
      [p \in {get_voice_paths(VBad)[1]} |-> "complete"] }

Init ==
    /\ pc = [r \in Reqs |-> "idle"]
    /\ request = [r \in Reqs |-> NoRequest]
    /\ loc = [r \in Reqs |-> NoLoc]
    /\ gen = [r \in Reqs |-> NoGen]
    /\ resp = [r \in Reqs |-> NoResp]
    /\ disconnected = [r \in Reqs |-> FALSE]
    /\ log = [r \in Reqs |-> <<>>]
    /\ fs \in InitialStores

(***************************** the framework ********************************)
\* an HTTPException raised by generate_speech before it returns: FastAPI
\* answers with that status and {"detail": ...}
RaiseInHandler(rsp, status, detail) ==
    [rsp EXCEPT !.status = status, !.detail = detail, !.finished = TRUE,
                !.raised = status, !.raised_detail = detail]

\* the event loop runs one generate_speech call at a time (async def, no await)
InHandler(r) == pc[r] \in {"validate", "resolve", "dl_get", "dl_write",
                           "build", "convert", "transcoding", "respond"}
\* an event loop that generate_speech never occupies
LoopNeverBusy == FALSE

LoopBusy == \E r \in Reqs : InHandler(r)

(***************************** generate_speech ******************************)
\* a request arrives and generate_speech is called with the parsed body; it
\* takes the first free slot, and here one request is served at a time
Receive(r) ==
    /\ pc[r] = "idle"
    /\ \A q \in Reqs \ {r} : pc[q] = "idle"
    /\ \A q \in 1..(r - 1) : pc[q] # "idle"
    /\ pc' = [pc EXCEPT ![r] = "validate"]
    /\ \E rq \in OpenAISpeechRequest : request' = [request EXCEPT ![r] = rq]
    /\ UNCHANGED <<loc, gen, resp, disconnected, log, fs>>

\* a request arrives whose body varies the numeric fields
ReceiveNumeric(r) ==
    /\ pc[r] = "idle"
    /\ \A q \in Reqs \ {r} : pc[q] = "idle"
    /\ \A q \in 1..(r - 1) : pc[q] # "idle"
    /\ pc' = [pc EXCEPT ![r] = "validate"]
    /\ \E rq \in NumericSpeechRequest : request' = [request EXCEPT ![r] = rq]
    /\ UNCHANGED <<loc, gen, resp, disconnected, log, fs>>

\* a request arrives while others are still being streamed: the event loop
\* takes it as soon as no generate_speech call occupies it
ReceiveConcurrent(r) ==
    /\ pc[r] = "idle"
    /\ ~LoopBusy
    /\ pc' = [pc EXCEPT ![r] = "validate"]
    /\ \E rq \in ConcurrentSpeechRequest : request' = [request EXCEPT ![r] = rq]
    /\ UNCHANGED <<loc, gen, resp, disconnected, log, fs>>

\* the exchange is over and nothing of the request is kept but the files
Forget(r) ==
    /\ pc[r] = "done"
    /\ pc' = [pc EXCEPT ![r] = "idle"]
    /\ request' = [request EXCEPT ![r] = NoRequest]
    /\ loc' = [loc EXCEPT ![r] = NoLoc]
    /\ gen' = [gen EXCEPT ![r] = NoGen]
    /\ resp' = [resp EXCEPT ![r] = NoResp]
    /\ disconnected' = [disconnected EXCEPT ![r] = FALSE]
    /\ log' = [log EXCEPT ![r] = <<>>]
    /\ UNCHANGED fs

\* lines 283-301: voice name, requested format, joined input text
Validate(r) ==
    /\ pc[r] = "validate"
    /\ LET voice_name == EffectiveVoice(request[r])
           requested_format == EffectiveFormat(request[r])
           input_text == JoinedInput(request[r])
       IN  IF ~Truthy(voice_name)
           THEN /\ resp' = [resp EXCEPT ![r] = RaiseInHandler(@, 400, DetailVoiceRequired)]
                /\ pc' = [pc EXCEPT ![r] = "done"]
                /\ UNCHANGED loc
           ELSE IF ~Truthy(input_text)
           THEN /\ resp' = [resp EXCEPT ![r] = RaiseInHandler(@, 400, DetailEmptyInput)]
                /\ pc' = [pc EXCEPT ![r] = "done"]
                /\ loc' = [loc EXCEPT ![r].voice_name = voice_name,
                                      ![r].requested_format = requested_format]
           ELSE /\ loc' = [loc EXCEPT ![r].voice_name = voice_name,
                                      ![r].requested_format = requested_format,
                                      ![r].input_text = input_text]
                /\ pc' = [pc EXCEPT ![r] = "resolve"]
                /\ UNCHANGED resp
    /\ UNCHANGED <<request, gen, disconnected, log, fs>>

\* an entry of a request's log: the step taken and the path or URL it is about
Ev(ev, arg) == [ ev |-> ev, arg |-> arg ]
Logged(r, ev) == \E i \in DOMAIN log[r] : log[r][i].ev = ev

(***************************** download_voice_if_missing ********************)
\* a readiness test satisfied by either file
VoiceReadyEither(files, voice_name) ==
    \/ Exists(files, get_voice_paths(voice_name)[1])
    \/ Exists(files, get_voice_paths(voice_name)[2])

\* a readiness test that looks for the files without their extensions
VoiceReadyNoExt(files, voice_name) ==
    Exists(files, PathJoin(DATA_DIR, voice_name))

\* lines 124-127: both files exist
VoiceReady(files, voice_name) ==
    /\ Exists(files, get_voice_paths(voice_name)[1])
    /\ Exists(files, get_voice_paths(voice_name)[2])

\* a format test that accepts every name
WellFormedAlways(voice_name) == Len(Split(voice_name, "-")) >= 1

\* lines 133-135: at least three dash-separated parts
WellFormed(voice_name) == Len(Split(voice_name, "-")) >= 3

\* lines 136-142: repo_path = f"{lang_short}/{lang_code}/{name}/{quality}/{voice_name}"
RepoPath(voice_name) ==
    LET parts == Split(voice_name, "-")
        part(i) == IF i <= Len(parts) THEN parts[i] ELSE <<>>
        lang_code == part(1)
        name == part(2)
        quality == part(3)
        lang_short == Split(lang_code, "_")[1]
    IN  Join(<<lang_short, lang_code, name, quality, voice_name>>, <<"/">>)

\* line 145: for ext in (".onnx", ".onnx.json")
Exts == <<DotOnnx, DotOnnxJson>>

\* line 146: url = f"{HF_URL_BASE}/{repo_path}{ext}"
Url(voice_name, i) == HF_URL_BASE \o <<"/">> \o RepoPath(voice_name) \o Exts[i]

\* line 150: DATA_DIR / f"{voice_name}{ext}"
DestPath(voice_name, i) == PathJoin(DATA_DIR, voice_name \o Exts[i])

\* a failure path that unlinks the model file only
RemoveVoiceOnnxOnly(files, voice_name) ==
    RemoveFiles(files, {get_voice_paths(voice_name)[1]})

\* lines 154-160: both files are unlinked if they exist
RemoveVoice(files, voice_name) == RemoveFiles(files, Range(get_voice_paths(voice_name)))

\* a handler that names the model, not the voice, in the 404 detail
VoiceNotFoundNamesModel(r) ==
    /\ resp' = [resp EXCEPT ![r] =
                   RaiseInHandler(@, 404, DetailVoiceNotFound(request[r].model))]
    /\ pc' = [pc EXCEPT ![r] = "done"]

\* line 305: download_voice_if_missing returned False
VoiceNotFound(r) ==
    /\ resp' = [resp EXCEPT ![r] =
                   RaiseInHandler(@, 404, DetailVoiceNotFound(loc[r].voice_name))]
    /\ pc' = [pc EXCEPT ![r] = "done"]

\* lines 124-140: the paths, the existence test, mkdir, the name's parts
DlCheck(r) ==
    /\ pc[r] = "resolve"
    /\ LET voice_name == loc[r].voice_name
           paths == get_voice_paths(voice_name)
           seen == <<Ev("paths_built", paths[1]), Ev("fs_exists", paths[1])>>
       IN  IF VoiceReady(fs, voice_name)
           THEN /\ log' = [log EXCEPT ![r] = @ \o seen]
                /\ pc' = [pc EXCEPT ![r] = "build"]
                /\ UNCHANGED <<resp, loc>>
           ELSE IF ~WellFormed(voice_name)
           THEN /\ log' = [log EXCEPT ![r] = @ \o seen \o <<Ev("fs_mkdir", DATA_DIR),
                                                       Ev("voice_unavailable", voice_name)>>]
                /\ VoiceNotFound(r)
                /\ UNCHANGED loc
           ELSE /\ log' = [log EXCEPT ![r] = @ \o seen \o <<Ev("fs_mkdir", DATA_DIR)>>]
                /\ loc' = [loc EXCEPT ![r].ext = 1]
                /\ pc' = [pc EXCEPT ![r] = "dl_get"]
                /\ UNCHANGED resp
    /\ UNCHANGED <<request, gen, disconnected, fs>>

\* what requests.get, raise_for_status and open(..., "wb") can do
GetOutcomes == {"ok", "net_error", "http_error", "open_error"}

\* lines 146-150: GET the url, check the status, open the destination file
DlGet(r, outcome) ==
    /\ pc[r] = "dl_get"
    /\ LET voice_name == loc[r].voice_name
           i == loc[r].ext
           got == Ev("net_get", Url(voice_name, i))
       IN  IF outcome = "ok"
           THEN /\ fs' = WriteFile(fs, DestPath(voice_name, i), "partial")
                /\ log' = [log EXCEPT ![r] =
                              @ \o <<got, Ev("fs_write", DestPath(voice_name, i))>>]
                /\ pc' = [pc EXCEPT ![r] = "dl_write"]
                /\ UNCHANGED resp
           ELSE /\ fs' = RemoveVoice(fs, voice_name)
                /\ log' = [log EXCEPT ![r] = @ \o <<got, Ev("voice_unavailable", voice_name)>>]
                /\ VoiceNotFound(r)
    /\ UNCHANGED <<request, loc, gen, disconnected>>

\* lines 151-153: the chunks are written; after the second file, return True
DlWrite(r, ok) ==
    /\ pc[r] = "dl_write"
    /\ LET voice_name == loc[r].voice_name
           i == loc[r].ext
       IN  IF ok
           THEN /\ fs' = WriteFile(fs, DestPath(voice_name, i), "complete")
                /\ loc' = [loc EXCEPT ![r].ext = IF i < Len(Exts) THEN i + 1 ELSE i]
                /\ pc' = [pc EXCEPT ![r] = IF i < Len(Exts) THEN "dl_get" ELSE "build"]
                /\ UNCHANGED <<resp, log>>
           ELSE /\ fs' = RemoveVoice(fs, voice_name)
                /\ log' = [log EXCEPT ![r] = @ \o <<Ev("voice_unavailable", voice_name)>>]
                /\ VoiceNotFound(r)
                /\ UNCHANGED loc
    /\ UNCHANGED <<request, gen, disconnected>>

(***************************** convert_audio_if_needed **********************)
\* a conversion that takes every format other than wav for mp3
ConvertKindElseMp3(target_format) ==
    IF NormalFormat(target_format) = FmtWav THEN "wav" ELSE "mp3"

\* lines 176-215: what the function does for a target format
ConvertKind(target_format) ==
    IF NormalFormat(target_format) = FmtWav THEN "wav"
    ELSE IF NormalFormat(target_format) = FmtMp3 THEN "mp3"
    ELSE "unsupported"

\* how an ffmpeg run can end: without a readable input file it fails and
\* writes nothing; with one it converts, or fails with or without output
TranscoderOutcomes(files, wav_path) ==
    IF Exists(files, wav_path) /\ files[wav_path] = "complete"
    THEN {"ok", "fail", "fail_partial"}
    ELSE {"fail"}

(***************************** generate_speech, continued *******************)
\* a derivation that passes the speed itself
FinalLengthScaleIsSpeed(rq) ==
    IF rq.length_scale # NoFloat
    THEN rq.length_scale
    ELSE RatMax(Rat(1, 10), FloatOr(rq.speed, One))

\* lines 313-316: length_scale if not None, else 1.0 / max(0.1, speed or 1.0)
FinalLengthScale(rq) ==
    IF rq.length_scale # NoFloat
    THEN rq.length_scale
    ELSE RatDiv(One, RatMax(Rat(1, 10), FloatOr(rq.speed, One)))

\* lines 307-335: the model path, the temporary WAV path, the piper command
BuildCmd(r, hex) ==
    /\ pc[r] = "build"
    /\ LET onnx_path == get_voice_paths(loc[r].voice_name)[1]
           wav_path == WavPath(Pid, hex)
           final_length_scale == FinalLengthScale(request[r])
           speaker == IF request[r].speaker # NoFloat
                      THEN <<OPT_SPEAKER, Str(request[r].speaker)>> ELSE <<>>
       IN  /\ loc' = [loc EXCEPT ![r].wav_path = wav_path,
                                 ![r].piper_cmd =
                                     <<PIPER, OPT_MODEL, onnx_path, OPT_OUTPUT, wav_path,
                                       OPT_LENGTH, Str(final_length_scale),
                                       OPT_NOISE, Str(request[r].noise_scale),
                                       OPT_NOISE_W, Str(request[r].noise_scale_w)>>
                                     \o speaker]
           /\ log' = [log EXCEPT ![r] = @ \o <<Ev("paths_built", onnx_path),
                                               Ev("tmp_name", wav_path)>>]
    /\ pc' = [pc EXCEPT ![r] = "convert"]
    /\ UNCHANGED <<request, gen, resp, disconnected, fs>>

\* lines 338-340 with 176-193, 211-215: convert_audio_if_needed is called;
\* for mp3 it starts ffmpeg on wav_path and waits for it
ConvertPlan(r) ==
    /\ pc[r] = "convert"
    /\ LET kind == ConvertKind(loc[r].requested_format)
           wav_path == loc[r].wav_path
       IN  IF kind = "wav"
           THEN /\ loc' = [loc EXCEPT ![r].final_path = wav_path,
                                      ![r].media_type = "audio/wav",
                                      ![r].extra_cleanup = <<>>]
                /\ pc' = [pc EXCEPT ![r] = "respond"]
                /\ UNCHANGED <<resp, log>>
           ELSE IF kind = "mp3"
           THEN /\ log' = [log EXCEPT ![r] = @ \o <<Ev("transcoder_start", wav_path)>>]
                /\ pc' = [pc EXCEPT ![r] = "transcoding"]
                /\ UNCHANGED <<resp, loc>>
           ELSE /\ resp' = [resp EXCEPT ![r] = RaiseInHandler(@, 400, DetailUnsupported)]
                /\ pc' = [pc EXCEPT ![r] = "done"]
                /\ UNCHANGED <<loc, log>>
    /\ UNCHANGED <<request, gen, disconnected, fs>>

\* lines 195-209: ffmpeg has exited
TranscoderExit(r, outcome) ==
    /\ pc[r] = "transcoding"
    /\ outcome \in TranscoderOutcomes(fs, loc[r].wav_path)
    /\ LET mp3_path == Mp3Path(loc[r].wav_path)
       IN  IF outcome = "ok"
           THEN /\ fs' = WriteFile(fs, mp3_path, "complete")
                /\ loc' = [loc EXCEPT ![r].final_path = mp3_path,
                                      ![r].media_type = "audio/mpeg",
                                      ![r].extra_cleanup = <<mp3_path>>]
                /\ log' = [log EXCEPT ![r] = @ \o <<Ev("transcoder_exit0", mp3_path)>>]
                /\ pc' = [pc EXCEPT ![r] = "respond"]
                /\ UNCHANGED resp
           ELSE /\ fs' = IF outcome = "fail_partial"
                         THEN WriteFile(fs, mp3_path, "partial") ELSE fs
                /\ log' = [log EXCEPT ![r] = @ \o <<Ev("transcoder_failed", mp3_path)>>]
                /\ resp' = [resp EXCEPT ![r] = RaiseInHandler(@, 500, DetailFfmpeg)]
                /\ pc' = [pc EXCEPT ![r] = "done"]
                /\ UNCHANGED loc
    /\ UNCHANGED <<request, gen, disconnected>>

\* lines 342-351: the StreamingResponse is returned; the framework sends its
\* status line (200) and headers, and only then iterates the generator
Respond(r) ==
    /\ pc[r] = "respond"
    /\ resp' = [resp EXCEPT ![r].status = 200, ![r].media_type = loc[r].media_type]
    /\ pc' = [pc EXCEPT ![r] = "resp"]
    /\ UNCHANGED <<request, loc, gen, disconnected, log, fs>>

(***************************** stream_audio_generator ***********************)
\* a cleanup that forgets the first listed file, the WAV file
CleanupKeepsWav(files, cleanup_files) ==
    RemoveFiles(files, { f \in Range(Tail(cleanup_files)) : Truthy(f) /\ Exists(files, f) })

\* lines 260-266: every listed file that exists is removed (os.remove is
\* taken to succeed on the files the request itself created)
Cleanup(files, cleanup_files) ==
    RemoveFiles(files, { f \in Range(cleanup_files) : Truthy(f) /\ Exists(files, f) })

\* the generator ends by an exception or by being closed: the response that
\* was started cannot be turned into an error response any more
Abort(rsp) == [rsp EXCEPT !.aborted = TRUE]

\* a generator that runs piper a second time
GenStartTwice(r) ==
    /\ pc[r] = "resp"
    /\ gen' = [gen EXCEPT ![r].cleanup_files = <<loc[r].wav_path>> \o loc[r].extra_cleanup]
    /\ log' = [log EXCEPT ![r] = @ \o <<Ev("engine_start", loc[r].wav_path),
                                        Ev("engine_start", loc[r].wav_path)>>]
    /\ pc' = [pc EXCEPT ![r] = "engine"]
    /\ UNCHANGED <<request, loc, resp, disconnected, fs>>

\* lines 231-244: the generator is started in a worker thread; piper is run
GenStart(r) ==
    /\ pc[r] = "resp"
    /\ gen' = [gen EXCEPT ![r].cleanup_files = <<loc[r].wav_path>> \o loc[r].extra_cleanup]
    /\ log' = [log EXCEPT ![r] = @ \o <<Ev("engine_start", loc[r].wav_path)>>]
    /\ pc' = [pc EXCEPT ![r] = "engine"]
    /\ UNCHANGED <<request, loc, resp, disconnected, fs>>

\* lines 246-259 and, when the generator ends here, 260-266: piper has exited
\* with returncode; wrote: a failed run left an output file; n: the chunks of
\* the final file
EngineExit(r, returncode, wrote, n) ==
    /\ pc[r] = "engine"
    /\ returncode = 0 => wrote
    /\ (returncode # 0 \/ disconnected[r]) => n = 1
    /\ LET wav_path == loc[r].wav_path
           after == IF returncode = 0 THEN WriteFile(fs, wav_path, "complete")
                    ELSE IF wrote THEN WriteFile(fs, wav_path, "partial")
                    ELSE fs
           exited == <<Ev(IF returncode = 0 THEN "engine_exit0" ELSE "engine_failed", wav_path)>>
                     \o (IF after # fs THEN <<Ev("wav_written", wav_path)>> ELSE <<>>)
       IN  IF returncode # 0
           THEN /\ resp' = [resp EXCEPT ![r] =
                               [Abort(@) EXCEPT !.raised = 500,
                                                !.raised_detail = DetailPiper(returncode)]]
                /\ fs' = Cleanup(after, gen[r].cleanup_files)
                /\ log' = [log EXCEPT ![r] = @ \o exited \o <<Ev("cleanup", wav_path)>>]
                /\ pc' = [pc EXCEPT ![r] = "done"]
                /\ gen' = [gen EXCEPT ![r].returncode = returncode]
           ELSE IF ~Exists(after, loc[r].final_path) \/ disconnected[r]
           THEN /\ resp' = [resp EXCEPT ![r] = Abort(@)]
                /\ fs' = Cleanup(after, gen[r].cleanup_files)
                /\ log' = [log EXCEPT ![r] = @ \o exited \o <<Ev("cleanup", wav_path)>>]
                /\ pc' = [pc EXCEPT ![r] = "done"]
                /\ gen' = [gen EXCEPT ![r].returncode = returncode]
           ELSE /\ fs' = after
                /\ gen' = [gen EXCEPT ![r].remaining = n, ![r].returncode = returncode]
                /\ log' = [log EXCEPT ![r] = @ \o exited \o <<Ev("open_final", loc[r].final_path)>>]
                /\ pc' = [pc EXCEPT ![r] = "stream"]
                /\ UNCHANGED resp
    /\ UNCHANGED <<request, loc, disconnected>>

\* lines 258-259: one chunk is read and yielded, and reaches the caller
StreamChunk(r) ==
    /\ pc[r] = "stream"
    /\ ~disconnected[r]
    /\ gen[r].remaining > 0
    /\ gen' = [gen EXCEPT ![r].remaining = @ - 1]
    /\ resp' = [resp EXCEPT ![r].delivered = @ + 1]
    /\ log' = [log EXCEPT ![r] = @ \o <<Ev("chunk", loc[r].final_path)>>]
    /\ UNCHANGED <<pc, request, loc, disconnected, fs>>

\* lines 258-266: read returns b"", the loop ends, the finally clause runs
StreamEnd(r) ==
    /\ pc[r] = "stream"
    /\ ~disconnected[r]
    /\ gen[r].remaining = 0
    /\ fs' = Cleanup(fs, gen[r].cleanup_files)
    /\ resp' = [resp EXCEPT ![r].finished = TRUE]
    /\ log' = [log EXCEPT ![r] = @ \o <<Ev("cleanup", loc[r].wav_path)>>]
    /\ pc' = [pc EXCEPT ![r] = "done"]
    /\ UNCHANGED <<request, loc, gen, disconnected>>

\* the caller goes away while the response is being produced
Disconnect(r) ==
    /\ pc[r] \in {"resp", "engine", "stream"}
    /\ ~disconnected[r]
    /\ disconnected' = [disconnected EXCEPT ![r] = TRUE]
    /\ log' = [log EXCEPT ![r] = @ \o <<Ev("disconnect", <<>>)>>]
    /\ UNCHANGED <<pc, request, loc, gen, resp, fs>>

\* the response is dropped before the generator was ever started: closing a
\* generator that has not entered its try block runs no finally clause
GenDrop(r) ==
    /\ pc[r] = "resp"
    /\ disconnected[r]
    /\ resp' = [resp EXCEPT ![r] = Abort(@)]
    /\ pc' = [pc EXCEPT ![r] = "done"]
    /\ UNCHANGED <<request, loc, gen, disconnected, log, fs>>

\* a generator without the finally clause: closing it removes nothing
GenCloseNoFinally(r) ==
    /\ pc[r] = "stream"
    /\ disconnected[r]
    /\ resp' = [resp EXCEPT ![r] = Abort(@)]
    /\ pc' = [pc EXCEPT ![r] = "done"]
    /\ UNCHANGED <<request, loc, gen, disconnected, log, fs>>

\* lines 259-266: the generator is closed while suspended at its yield:
\* GeneratorExit is raised there and the finally clause runs
GenClose(r) ==
    /\ pc[r] = "stream"
    /\ disconnected[r]
    /\ fs' = Cleanup(fs, gen[r].cleanup_files)
    /\ resp' = [resp EXCEPT ![r] = Abort(@)]
    /\ log' = [log EXCEPT ![r] = @ \o <<Ev("cleanup", loc[r].wav_path)>>]
    /\ pc' = [pc EXCEPT ![r] = "done"]
    /\ UNCHANGED <<request, loc, gen, disconnected>>

(***************************** specification ********************************)
Next ==
    \E r \in Reqs :
        \/ Receive(r)
        \/ Validate(r)
        \/ DlCheck(r)
        \/ \E outcome \in GetOutcomes : DlGet(r, outcome)
        \/ \E ok \in BOOLEAN : DlWrite(r, ok)
        \/ \E hex \in RandHex : BuildCmd(r, hex)
        \/ ConvertPlan(r)
        \/ \E outcome \in {"ok", "fail", "fail_partial"} : TranscoderExit(r, outcome)
        \/ Respond(r)
        \/ GenStart(r)
        \/ \E returncode \in ExitCodes, wrote \in BOOLEAN, n \in 1..MaxChunks :
               EngineExit(r, returncode, wrote, n)
        \/ StreamChunk(r)
        \/ StreamEnd(r)
        \/ Disconnect(r)
        \/ GenDrop(r)
        \/ GenClose(r)
        \/ Forget(r)

Spec == Init /\ [][Next]_vars

\* convert_audio_if_needed called on its own, as the unit test calls it: on a
\* WAV path and a target format of the caller's choosing, the WAV file
\* written beforehand or not
ConvertPaths == { <<"/","t","/","a",".","w","a","v">>, <<"/","t","/","c",".","w","a","v">>, <<"/","a",".","w","a","v",".","d","/","b",".","w","a","v">> }
ConvertFormats == FormatChoices \cup { <<"W","A","V">> }

CallConvert(r) ==
    /\ pc[r] = "idle"
    /\ \A q \in Reqs \ {r} : pc[q] = "idle"
    /\ \A q \in 1..(r - 1) : pc[q] # "idle"
    /\ \E wav_path \in ConvertPaths, target_format \in ConvertFormats, present \in BOOLEAN :
           /\ loc' = [loc EXCEPT ![r].wav_path = wav_path,
                                 ![r].requested_format = target_format]
           /\ fs' = IF present THEN WriteFile(fs, wav_path, "complete") ELSE fs
    /\ pc' = [pc EXCEPT ![r] = "convert"]
    /\ UNCHANGED <<request, gen, resp, disconnected, log>>

\* the function has returned its triple to the caller
ConvertReturn(r) ==
    /\ pc[r] = "respond"
    /\ pc' = [pc EXCEPT ![r] = "done"]
    /\ UNCHANGED <<request, loc, gen, resp, disconnected, log, fs>>

NextConvert ==
    \E r \in Reqs :
        \/ CallConvert(r)
        \/ ConvertPlan(r)
        \/ \E outcome \in {"ok", "fail", "fail_partial"} : TranscoderExit(r, outcome)
        \/ ConvertReturn(r)
        \/ Forget(r)

SpecConvert == Init /\ [][NextConvert]_vars

\* the server with requests in flight at the same time: generate_speech
\* calls run one after another on the event loop, the generators of the
\* responses run in worker threads beside them
NextConcurrent ==
    \E r \in Reqs :
        \/ ReceiveConcurrent(r)
        \/ Validate(r)
        \/ DlCheck(r)
        \/ \E outcome \in GetOutcomes : DlGet(r, outcome)
        \/ \E ok \in BOOLEAN : DlWrite(r, ok)
        \/ \E hex \in RandHex : BuildCmd(r, hex)
        \/ ConvertPlan(r)
        \/ \E outcome \in {"ok", "fail", "fail_partial"} : TranscoderExit(r, outcome)
        \/ Respond(r)
        \/ GenStart(r)
        \/ \E returncode \in ExitCodes, wrote \in BOOLEAN, n \in 1..MaxChunks :
               EngineExit(r, returncode, wrote, n)
        \/ StreamChunk(r)
        \/ StreamEnd(r)
        \/ Disconnect(r)
        \/ GenDrop(r)
        \/ GenClose(r)
        \/ Forget(r)

SpecConcurrent == Init /\ [][NextConcurrent]_vars

\* the same server, given bodies that vary speed, length_scale and speaker
NextNumeric ==
    \E r \in Reqs :
        \/ ReceiveNumeric(r)
        \/ Validate(r)
        \/ DlCheck(r)
        \/ \E outcome \in GetOutcomes : DlGet(r, outcome)
        \/ \E ok \in BOOLEAN : DlWrite(r, ok)
        \/ \E hex \in RandHex : BuildCmd(r, hex)
        \/ ConvertPlan(r)
        \/ \E outcome \in {"ok", "fail", "fail_partial"} : TranscoderExit(r, outcome)
        \/ Respond(r)
        \/ GenStart(r)
        \/ \E returncode \in ExitCodes, wrote \in BOOLEAN, n \in 1..MaxChunks :
               EngineExit(r, returncode, wrote, n)
        \/ StreamChunk(r)
        \/ StreamEnd(r)
        \/ Disconnect(r)
        \/ GenDrop(r)
        \/ GenClose(r)
        \/ Forget(r)

SpecNumeric == Init /\ [][NextNumeric]_vars

(***************************** properties ***********************************)
Done(r) == pc[r] = "done"

\* generate_speech has got past its validation of the body
Accepted(r) == pc[r] \notin {"idle", "validate"}

\* the temporary files of a request: its WAV file and its converted file
TempFiles(r) == { loc[r].wav_path, Replace(loc[r].wav_path, DotWav, DotMp3) }
NoTempFile(r) == \A p \in TempFiles(r) : p \notin DOMAIN fs

\* the position of the first entry of a kind in a request's log (0: none)
First(r, ev) ==
    IF Logged(r, ev)
    THEN CHOOSE i \in DOMAIN log[r] :
             log[r][i].ev = ev /\ \A j \in 1..(i - 1) : log[r][j].ev # ev
    ELSE 0

\* a voice identifier that contains '/', contains '\' or starts with '.'
Traversing(v) == Contains(v, "/") \/ Contains(v, "\\") \/ StartsWith(v, ".")

\* the voice identifier a request asks for: voice when non-empty, else model
AskedVoice(r) ==
    IF request[r].voice # None /\ request[r].voice # <<>>
    THEN request[r].voice ELSE request[r].model

\* C1 (as claimed): a request whose voice identifier contains '/', contains
\* '\' or starts with '.' is answered 400 and nothing is done for it: no path
\* is built, no file or network access is made, no process is started and no
\* temporary file is named.
C1_TraversalRejected ==
    \A r \in Reqs :
        (Accepted(r) /\ Traversing(AskedVoice(r)))
            => /\ log[r] = <<>>
               /\ Done(r) => resp[r].status = 400

\* C2: once a request has terminated, whether it streamed its audio, its
\* engine failed or its transcoder failed, neither its WAV file nor its
\* converted file exists.
C2_NoTempFileAfterTermination ==
    \A r \in Reqs : Done(r) => NoTempFile(r)

\* C2 witness: a request that streamed all its audio after the engine wrote
\* the WAV file has terminated and its cleanup has run.
C2_Witness ==
    \E r \in Reqs :
        /\ Done(r)
        /\ resp[r].finished /\ resp[r].status = 200 /\ resp[r].delivered >= 1
        /\ Logged(r, "wav_written")
        /\ Logged(r, "cleanup")

\* C3: after the caller has disconnected no further chunk is delivered, and
\* when the request has terminated its temporary files are gone, the cleanup
\* having run if the engine was ever started.
C3_DisconnectCleansUp ==
    \A r \in Reqs :
        Logged(r, "disconnect")
            => /\ \A i \in DOMAIN log[r] :
                      log[r][i].ev = "chunk" => i < First(r, "disconnect")
               /\ Done(r) => /\ NoTempFile(r)
                             /\ Logged(r, "engine_start") => Logged(r, "cleanup")

\* C3 witness: the caller disconnected between two chunks of a WAV file that
\* the engine had written, and the request has terminated.
C3_Witness ==
    \E r \in Reqs :
        /\ Done(r)
        /\ Logged(r, "wav_written")
        /\ Logged(r, "chunk")
        /\ First(r, "chunk") < First(r, "disconnect")
        /\ gen[r].remaining > 0

\* C4 (as claimed): the transcoder of a request is started only after the
\* engine of that request has exited with code 0 and written the WAV file.
C4_TranscoderAfterEngine ==
    \A r \in Reqs :
        Logged(r, "transcoder_start")
            => /\ Logged(r, "engine_exit0")
               /\ First(r, "engine_exit0") < First(r, "transcoder_start")

\* C5 (as claimed): when the engine exits with a non-zero code the caller
\* receives status 500 with a detail carrying that exit code, and no audio
\* chunk.
C5_EngineFailureIs500 ==
    \A r \in Reqs :
        (Done(r) /\ Logged(r, "engine_failed"))
            => /\ resp[r].status = 500
               /\ resp[r].detail = DetailPiper(gen[r].returncode)
               /\ resp[r].delivered = 0

\* the requested format of a request as the body gives it: format, else
\* response_format, else "wav", an empty text counting as absent
AskedFormat(r) ==
    IF request[r].format # None /\ request[r].format # <<>> THEN request[r].format
    ELSE IF request[r].response_format # None /\ request[r].response_format # <<>>
         THEN request[r].response_format
    ELSE FmtWav

\* the lower-cased requested format is neither "wav" nor "mp3"
Unsupported(r) == Lower(AskedFormat(r)) \notin {FmtWav, FmtMp3}

\* C6: for a request whose lower-cased format is neither "wav" nor "mp3" the
\* transcoder and the engine are never started and the request never gets
\* past the conversion call; when that call is reached it raises 400 and
\* leaves no file of the request behind.
C6_UnsupportedFormatNoProcess ==
    \A r \in Reqs :
        (Accepted(r) /\ Unsupported(r))
            => /\ ~Logged(r, "transcoder_start")
               /\ ~Logged(r, "engine_start")
               /\ pc[r] \in {"resolve", "dl_get", "dl_write", "build", "convert", "done"}
               /\ NoTempFile(r)
               /\ (Done(r) /\ Logged(r, "tmp_name"))
                      => /\ resp[r].status = 400
                         /\ resp[r].detail = DetailUnsupported

\* C6 witness: a request for an unsupported format has reached the conversion
\* call and was answered 400.
C6_Witness ==
    \E r \in Reqs :
        /\ Done(r) /\ Unsupported(r) /\ Logged(r, "tmp_name")
        /\ resp[r].status = 400

\* C7 (as claimed): a request with an unsupported format is answered 400
\* before voice resolution: download_voice_if_missing is not called for it,
\* so no asset file is looked up or written and no network request is made.
C7_UnsupportedBeforeResolution ==
    \A r \in Reqs :
        (Accepted(r) /\ Unsupported(r))
            => /\ ~Logged(r, "fs_exists")
               /\ ~Logged(r, "net_get")
               /\ ~Logged(r, "fs_write")
               /\ Done(r) => resp[r].status = 400

\* C8: when voice resolution reports the voice unavailable the request ends
\* with 404 and the detail "Voice '<id>' not found." naming the effective
\* voice identifier; no engine and no transcoder is started and no temporary
\* file is named or exists.
C8_UnavailableVoiceIs404 ==
    \A r \in Reqs :
        Logged(r, "voice_unavailable")
            => /\ Done(r)
               /\ resp[r].status = 404
               /\ resp[r].detail = DetailVoiceNotFound(AskedVoice(r))
               /\ ~Logged(r, "engine_start")
               /\ ~Logged(r, "transcoder_start")
               /\ ~Logged(r, "tmp_name")
               /\ NoTempFile(r)

\* C8 witness: the download of a voice given in `voice`, with another name in
\* `model`, failed after a network request, and the request was answered 404.
C8_Witness ==
    \E r \in Reqs :
        /\ Logged(r, "voice_unavailable") /\ Logged(r, "net_get")
        /\ request[r].voice = VGood /\ request[r].model # VGood
        /\ resp[r].status = 404

\* the input of a request is the empty string or the empty list
EmptyInput(r) == request[r].input.val = <<>>

\* C9 (as claimed): a request whose input is the empty string or the empty
\* list is answered 400 with the detail "input text must not be empty." and
\* nothing else is done for it.
C9_EmptyInputDetail ==
    \A r \in Reqs :
        (Accepted(r) /\ EmptyInput(r))
            => /\ Done(r)
               /\ resp[r].status = 400
               /\ resp[r].detail = DetailEmptyInput
               /\ log[r] = <<>>

\* C9 (amended): a request with empty input is answered 400 and nothing else
\* is done for it; the detail is "input text must not be empty." when the
\* effective voice identifier is non-empty, and the voice detail otherwise.
C9_EmptyInputRejected ==
    \A r \in Reqs :
        (Accepted(r) /\ EmptyInput(r))
            => /\ Done(r)
               /\ resp[r].status = 400
               /\ resp[r].detail = IF AskedVoice(r) # <<>> THEN DetailEmptyInput
                                   ELSE DetailVoiceRequired
               /\ log[r] = <<>>
               /\ NoTempFile(r)

\* C9 witness: a request with an empty list as input and a voice was
\* answered 400 with the empty-input detail.
C9_Witness ==
    \E r \in Reqs :
        /\ Done(r)
        /\ request[r].input = [kind |-> "list", val |-> <<>>]
        /\ AskedVoice(r) # <<>>
        /\ resp[r].status = 400 /\ resp[r].detail = DetailEmptyInput

\* the conversion call has been made with loc[r].requested_format
Converted(r) == pc[r] \in {"transcoding", "respond", "resp", "engine", "stream"}

\* C10 (as claimed): the effective format is format whenever format is
\* present, response_format when format is absent, "wav" when both are.
C10_FormatWheneverPresent ==
    \A r \in Reqs :
        loc[r].requested_format # None
            => loc[r].requested_format =
                   IF request[r].format # None THEN request[r].format
                   ELSE IF request[r].response_format # None
                        THEN request[r].response_format
                   ELSE FmtWav

\* C10 (amended): the effective format is format whenever format is present
\* and non-empty, else response_format when that is present and non-empty,
\* else "wav"; with format "wav" and response_format "mp3" the conversion is
\* made for "wav".
C10_FormatPrecedence ==
    \A r \in Reqs :
        /\ loc[r].requested_format # None => loc[r].requested_format = AskedFormat(r)
        /\ (Converted(r) /\ request[r].format = FmtWav /\ request[r].response_format = FmtMp3)
               => /\ loc[r].media_type = "audio/wav"
                  /\ loc[r].final_path = loc[r].wav_path
                  /\ ~Logged(r, "transcoder_start")

\* C10 witness: a request with format "wav" and response_format "mp3" has
\* been through the conversion call.
C10_Witness ==
    \E r \in Reqs :
        /\ pc[r] = "respond"
        /\ request[r].format = FmtWav /\ request[r].response_format = FmtMp3
        /\ loc[r].requested_format = FmtWav

\* the number of entries of a kind in a request's log
Count(r, ev) == Cardinality({ i \in DOMAIN log[r] : log[r][i].ev = ev })

\* the two asset files of a voice, named from the identifier
OnnxFile(v) == PathJoin(DATA_DIR, v \o DotOnnx)
JsonFile(v) == PathJoin(DATA_DIR, v \o DotOnnxJson)

\* download_voice_if_missing is about to be called / has returned True
Calling(r) == pc[r] = "resolve"
ReturnedTrue(r) == pc[r] = "build"

\* C11: when download_voice_if_missing is called with both files of the
\* voice present, it returns True at once: no network request is made and
\* the filesystem is left as it was.
C11_ReadyVoiceNoNetwork ==
    [][ \A r \in Reqs :
          (Calling(r) /\ pc'[r] # pc[r]
             /\ OnnxFile(AskedVoice(r)) \in DOMAIN fs
             /\ JsonFile(AskedVoice(r)) \in DOMAIN fs)
              => /\ ReturnedTrue(r)'
                 /\ fs' = fs
                 /\ ~Logged(r, "net_get")' ]_vars

\* C11 witness: the call has returned True for a voice whose two files are
\* in the store, without any network request.
C11_Witness ==
    \E r \in Reqs :
        /\ ReturnedTrue(r)
        /\ ~Logged(r, "net_get") /\ ~Logged(r, "fs_mkdir")
        /\ OnnxFile(AskedVoice(r)) \in DOMAIN fs
        /\ JsonFile(AskedVoice(r)) \in DOMAIN fs

\* the number of dash-separated parts of a voice identifier
DashParts(v) == Cardinality({ i \in DOMAIN v : v[i] = "-" }) + 1

\* C12: for a voice identifier with fewer than 3 dash-separated parts whose
\* files are not both present, the call returns False without raising (the
\* request ends 404) and no network request is made.
C12_MalformedFailsFast ==
    \A r \in Reqs :
        (Accepted(r) /\ Logged(r, "fs_exists") /\ DashParts(AskedVoice(r)) < 3
           /\ ~(OnnxFile(AskedVoice(r)) \in DOMAIN fs /\ JsonFile(AskedVoice(r)) \in DOMAIN fs))
            => /\ Done(r)
               /\ resp[r].status = 404
               /\ ~Logged(r, "net_get")
               /\ ~Logged(r, "fs_write")

\* C12 witness: a request for a one-part voice name, one of whose files is
\* in the store, has ended 404.
C12_Witness ==
    \E r \in Reqs :
        /\ Done(r) /\ resp[r].status = 404 /\ Logged(r, "fs_exists")
        /\ AskedVoice(r) = VBad
        /\ OnnxFile(VBad) \in DOMAIN fs

\* C13: when a step of the fetch has failed, the call has returned False
\* (the request ends 404) and neither file of the voice exists.
C13_FailedFetchLeavesNothing ==
    \A r \in Reqs :
        (Logged(r, "net_get") /\ Logged(r, "voice_unavailable"))
            => /\ Done(r)
               /\ resp[r].status = 404
               /\ OnnxFile(AskedVoice(r)) \notin DOMAIN fs
               /\ JsonFile(AskedVoice(r)) \notin DOMAIN fs

\* C13 witness: the fetch failed on the metadata file after the model file
\* had been written.
C13_Witness ==
    \E r \in Reqs :
        /\ Logged(r, "voice_unavailable")
        /\ Count(r, "net_get") = 2 /\ Count(r, "fs_write") = 2

NoVoiceAsked(r) ==
    /\ request[r].voice \in {None, <<>>}
    /\ request[r].model \in {None, <<>>}

\* C18: the voice identifier used to resolve the assets and to name the
\* engine's model path is voice when non-empty and model otherwise; a
\* request with both empty or absent is answered 400 'voice required'
\* before any voice resolution.
C18_EffectiveVoice ==
    \A r \in Reqs :
        /\ (Accepted(r) /\ NoVoiceAsked(r))
               => /\ Done(r) /\ resp[r].status = 400
                  /\ resp[r].detail = DetailVoiceRequired
                  /\ log[r] = <<>>
        /\ \A i \in DOMAIN log[r] :
               /\ log[r][i].ev \in {"paths_built", "fs_exists"}
                      => log[r][i].arg = OnnxFile(AskedVoice(r))
               /\ log[r][i].ev = "voice_unavailable"
                      => resp[r].detail.voice = AskedVoice(r)
        /\ loc[r].piper_cmd # <<>>
               => /\ loc[r].piper_cmd[2] = OPT_MODEL
                  /\ loc[r].piper_cmd[3] = OnnxFile(AskedVoice(r))

\* C18 witness: the engine has been started on the model file of voice, for
\* a request whose model names another voice.
C18_Witness ==
    \E r \in Reqs :
        /\ request[r].voice = VGood /\ request[r].model = VBad
        /\ Logged(r, "engine_start")
        /\ loc[r].piper_cmd[3] = OnnxFile(VGood)

\* the entries of a request's log that start an external process
ProcessStarts == {"engine_start", "transcoder_start"}

\* the request has delivered its whole audio
Streamed(r) == resp[r].status = 200 /\ resp[r].finished /\ resp[r].delivered >= 1

\* C20: within one request the engine is started at most once and the
\* transcoder at most once; a request that streamed its audio started the
\* engine exactly once; after an engine or transcoder failure no further
\* process is started for the request.
C20_NoRetry ==
    \A r \in Reqs :
        /\ Count(r, "engine_start") <= 1
        /\ Count(r, "transcoder_start") <= 1
        /\ Streamed(r) => Count(r, "engine_start") = 1
        /\ \A i, j \in DOMAIN log[r] :
               (log[r][i].ev \in {"engine_failed", "transcoder_failed"} /\ i < j)
                   => log[r][j].ev \notin ProcessStarts

\* C20 witness: a request has streamed its audio, and its log holds one
\* engine start.
C20_Witness ==
    \E r \in Reqs : Streamed(r) /\ Done(r) /\ Count(r, "engine_start") = 1

\* C20 second case: a request whose engine failed has terminated.
C20_FailureWitness ==
    \E r \in Reqs : Done(r) /\ Logged(r, "engine_failed") /\ Logged(r, "cleanup")

\* the length scale the engine is given: the value after --length-scale
PassedLengthScale(r) == loc[r].piper_cmd[7].repr

\* C17: the length scale passed to the engine equals the request's
\* length_scale whenever that is set, and otherwise 1 / max(0.1, speed) for
\* every speed within 0.25..4.0 (0.5 for speed 2.0, 1.0 for an absent speed).
C17_LengthScale ==
    \A r \in Reqs :
        loc[r].piper_cmd # <<>>
            => LET rq == request[r]
                   tenth == Rat(1, 10)
                   floor == IF rq.speed # NoFloat /\ RatLess(tenth, rq.speed)
                            THEN rq.speed ELSE tenth
               IN  /\ loc[r].piper_cmd[6] = OPT_LENGTH
                   /\ rq.length_scale # NoFloat
                          => RatEq(PassedLengthScale(r), rq.length_scale)
                   /\ (rq.length_scale = NoFloat /\ rq.speed # NoFloat)
                          => PassedLengthScale(r).n * floor.n
                                 = PassedLengthScale(r).d * floor.d
                   /\ (rq.length_scale = NoFloat /\ rq.speed = Rat(2, 1))
                          => PassedLengthScale(r) = Rat(1, 2)
                   /\ (rq.length_scale = NoFloat /\ rq.speed = NoFloat)
                          => PassedLengthScale(r) = Rat(1, 1)

\* C17 witness: the engine has been started for a request with speed 2.0 and
\* no length_scale.
C17_Witness ==
    \E r \in Reqs :
        /\ request[r].speed = Rat(2, 1) /\ request[r].length_scale = NoFloat
        /\ Logged(r, "engine_start")
        /\ PassedLengthScale(r) = Rat(1, 2)

\* C17 second case: the engine has been started with a length_scale of 0.0
\* passed as it is.
C17_VerbatimWitness ==
    \E r \in Reqs :
        /\ request[r].length_scale = Rat(0, 1) /\ request[r].speed = Rat(4, 1)
        /\ Logged(r, "engine_start")
        /\ PassedLengthScale(r).n = 0

\* the sibling of a WAV path: the same path with its extension replaced
SiblingMp3(wav_path) == SubSeq(wav_path, 1, Len(wav_path) - Len(DotWav)) \o DotMp3

\* the spellings of the two formats the function is called with
WavSpellings == { None, <<"w","a","v">>, <<"W","A","V">> }
Mp3Spellings == { <<"m","p","3">>, <<"M","P","3">> }

InFlight(r) == pc[r] \notin {"idle", "done"} /\ loc[r].wav_path # None

\* C15 (as claimed): with requests in flight at the same time no temporary
\* file path, WAV or converted, is held by more than one of them.
C15_TempFilesExclusive ==
    \A r, q \in Reqs :
        (r # q /\ InFlight(r) /\ InFlight(q)) => TempFiles(r) \cap TempFiles(q) = {}

\* C15, the harm: a request is streaming a file that is no longer there
C15_StreamedFileRemoved ==
    \E r \in Reqs : pc[r] = "stream" /\ loc[r].final_path \notin DOMAIN fs

\* an external process of the request is running
ProcessRunning(r) == pc[r] \in {"engine", "transcoding"}

\* C16 (as claimed): while the engine or the transcoder of one request is
\* running, the dispatcher can accept and start handling another request.
C16_ProcessesOffDispatchPath ==
    \A r, q \in Reqs :
        (ProcessRunning(r) /\ \A o \in Reqs \ {r} : pc[o] = "idle" /\ q # r)
            => ENABLED ReceiveConcurrent(q)

\* C16, the engine part, which holds: while the engine of one request is
\* running another request can be received
C16_EngineOffDispatchPath ==
    \A r, q \in Reqs :
        (pc[r] = "engine" /\ \A o \in Reqs \ {r} : pc[o] = "idle" /\ q # r)
            => ENABLED ReceiveConcurrent(q)

\* download_voice_if_missing has returned True to the request and its engine
\* has not exited yet
ResolvedToEngine(r) ==
    pc[r] \in {"build", "convert", "transcoding", "respond", "resp", "engine"}

\* a file of the store that is there and completely written
Complete(p) == p \in DOMAIN fs /\ fs[p] = "complete"

\* C21: with requests for the same voice in flight at the same time and no
\* lock around the download, from the moment download_voice_if_missing has
\* returned True to a request until its engine has been started and runs,
\* both files of the voice exist and are completely written.
C21_AssetsCompleteForEngine ==
    \A r \in Reqs :
        ResolvedToEngine(r)
            => /\ Complete(OnnxFile(AskedVoice(r)))
               /\ Complete(JsonFile(AskedVoice(r)))

\* C21 witness: the engine of a request that downloaded the voice is running
\* while another request for the same voice has been through its own call.
C21_Witness ==
    \E r, q \in Reqs :
        /\ r # q /\ AskedVoice(r) = AskedVoice(q)
        /\ pc[r] = "engine" /\ Count(r, "net_get") = 2
        /\ pc[q] = "build" /\ Logged(q, "fs_exists")
        /\ Complete(OnnxFile(AskedVoice(r)))

\* C21, the other order: a request is in its download while the engine of
\* another request for the same voice is still to be started.
C21_OverlapWitness ==
    \E r, q \in Reqs :
        /\ r # q /\ AskedVoice(r) = AskedVoice(q)
        /\ pc[r] = "resp" /\ pc[q] = "resolve"

====
